---------------------------- MODULE Spec2Model ----------------------------
(***************************************************************************)
(* Request-execution core of the svg-api Python SDK.                       *)
(*                                                                         *)
(* Three executors are modelled, each as one invocation of its _request:   *)
(*   SvgApi             client.py        httpx.Client + retry_with_backoff *)
(*   HttpxAsyncSvgApi   client.py        httpx.AsyncClient +               *)
(*                                       async_retry_with_backoff          *)
(*   AsyncSvgApi        async_client.py  aiohttp session, inline loop      *)
(* The three clients have the same configuration and talk to a transport   *)
(* that answers the k-th send of every invocation with the same outcome    *)
(* (script[k]): a response (status, body), a connection failure or a       *)
(* timeout.  The outcome is drawn when a send first needs it.              *)
(*                                                                         *)
(* The specifications:                                                     *)
(*   Spec          one _request running on each of the three clients       *)
(*   SpecFair      the same, every send and every backoff sleep ending     *)
(*   SpecLife      one client from construction on: requests one after     *)
(*                 another, close(), scoped use                            *)
(*   SpecApi       one client from construction on: get_icon or get_batch  *)
(*   SpecDelay     calculate_retry_delay applied to its arguments          *)
(*   SpecConc      concurrent calls on one aiohttp client, cancellation    *)
(*   SpecClose     the same with close() running among the calls           *)
(*   SpecRetry     the retry helpers around a callable, and the aiohttp    *)
(*                 loop                                                    *)
(*   SpecClassify  raise_for_status applied to a status and an envelope    *)
(*   SpecOpt       get_batch_optimized                                     *)
(***************************************************************************)
EXTENDS Integers, Sequences, FiniteSets, TLC

VARIABLES
    max_retries,   \* config.max_retries, the same for the three clients
    script,        \* the outcomes the transport has answered with, by send number
    pc,            \* per executor: "call" (in the loop), "sleep" (backoff), "done"
    attempt,       \* per executor: the loop variable `attempt`
    sends,         \* per executor: number of sends performed
    sleeps,        \* per executor: number of backoff sleeps begun
    last_error,    \* per executor: last_error / last_exception
    result,        \* per executor: what the invocation ended in
    classified,    \* the last call of raise_for_status: arguments and outcome
    httpx_non2xx,  \* the installed httpx: TRUE when Response.raise_for_status
                   \* raises for every non-2xx status (current releases),
                   \* FALSE when only for 4xx and 5xx (early releases)
    retry_delay,   \* config.retry_delay in milliseconds, the same for the three clients
    delay,         \* per executor: the delay of the last backoff sleep, in ticks
    calc,          \* one application of calculate_retry_delay: arguments and value
    client,        \* per executor: the connection resource the client object holds
    life,          \* per executor: where the client is in its life (scope, closes, calls)
    call,          \* per executor: the endpoint method called, its arguments and stage
    aio,           \* the aiohttp client shared by concurrent calls: _session, _connector,
                   \* and the sessions and connectors it has created
    tasks,         \* per concurrent call on the aiohttp client: the coroutine's locals
    closer,        \* the coroutine running close() on the aiohttp client
    helper,        \* one call of a retry helper around an arbitrary callable
    cls,           \* one call of raise_for_status: the response and the error raised
    opt            \* one call of get_batch_optimized: its chunks and their results

vars == <<max_retries, script, pc, attempt, sends, sleeps, last_error, result,
          classified, httpx_non2xx, retry_delay, delay, calc, client, life, call,
          aio, tasks, closer, helper, cls, opt>>

\* The variables of the three executors, of the life cycle, of the endpoint
\* methods and of the delay calculator.
coreVars == <<max_retries, script, pc, attempt, sends, sleeps, last_error, result,
              classified, httpx_non2xx, retry_delay, delay, calc, client, life, call>>

\* The variables of the concurrent aiohttp calls, of the retry helper runs, of
\* the classifier call and of get_batch_optimized.
auxVars == <<aio, tasks, closer, helper, cls, opt>>

\* The variables the request executors leave alone.
restVars == <<calc, client, life, call, auxVars>>

\* Largest max_retries the model configures.
MaxRetries == 2

Executors == {"SvgApi", "HttpxAsyncSvgApi", "AsyncSvgApi"}

\* Status codes the transport answers with: success, a 3xx that no client
\* follows, each specifically classified status, two unlisted 4xx and a
\* 5xx other than 503.
Statuses == {200, 304, 400, 401, 403, 404, 422, 429, 500, 503}

\* Response bodies, by what response.json() makes of them.
Bodies == {"not_json", "{}", "[]", "{error:{message,code,details}}", "{error:str}",
           "{data,meta}"}

NoStatus == 0 - 1

\* What one send can end in.
Outcomes ==
    [kind : {"response"}, status : Statuses, body : Bodies]
      \cup [kind : {"connect_error", "timeout"}, status : {NoStatus}, body : {"not_json"}]

\* The classes of errors.py: SvgApiError and its subclasses.
SvgApiErrors ==
    {"SvgApiError", "ApiError", "AuthenticationError", "RateLimitError",
     "InvalidRequestError", "NotFoundError", "ServiceUnavailableError",
     "TimeoutError", "NetworkError"}

\* What a call ends in: a returned value or a raised exception.
Return(d) == [kind |-> "return", exc |-> "none", status_code |-> NoStatus, data |-> d]
Raise(c, s) == [kind |-> "raise", exc |-> c, status_code |-> s, data |-> "none"]
Pending == [kind |-> "pending", exc |-> "none", status_code |-> NoStatus, data |-> "none"]

\* response.json() wrapped in try/except Exception: an unparseable body
\* gives the empty mapping, anything else the parsed value.
ParseJson(body) ==
    CASE body = "not_json" -> "map_empty"
      [] body = "{}" -> "map_empty"
      [] body = "[]" -> "list"
      [] body = "{error:{message,code,details}}" -> "map_error_map"
      [] body = "{error:str}" -> "map_error_str"
      [] body = "{data,meta}" -> "map_payload"

\* RateLimitError.__init__ passes status_code=429 to SvgApiError.__init__ and
\* forwards **kwargs, so it cannot be given status_code by keyword.
RateLimitError_init(kwargs) ==
    IF "status_code" \in kwargs
      THEN Raise("TypeError", NoStatus)
      ELSE Raise("RateLimitError", 429)

\* errors.raise_for_status: the exception it raises, or Return("None") when
\* it falls off its if/elif chain.
raise_for_status(status_code, data) ==
    IF data = "list" \/ data = "map_error_str"
      THEN Raise("AttributeError", NoStatus)
    ELSE IF status_code = 400 THEN Raise("InvalidRequestError", status_code)
    ELSE IF status_code = 401 THEN Raise("AuthenticationError", status_code)
    ELSE IF status_code = 404 THEN Raise("NotFoundError", status_code)
    ELSE IF status_code = 429
      THEN RateLimitError_init({"retry_after", "status_code", "details", "request_id"})
    ELSE IF status_code >= 500
      THEN IF status_code = 503
             THEN Raise("ServiceUnavailableError", status_code)
             ELSE Raise("ApiError", status_code)
    ELSE Return("None")

\* `raise raise_for_status(...)`: the exception of the call propagates; when
\* the call returns None, `raise None` is a TypeError.
RaiseRaiseForStatus(status_code, data) ==
    LET r == raise_for_status(status_code, data)
    IN  IF r.kind = "raise" THEN r ELSE Raise("TypeError", NoStatus)

\* response.raise_for_status() of httpx: whether it raises HTTPStatusError.
HttpxRaisesForStatus(status) ==
    IF httpx_non2xx
      THEN ~(status >= 200 /\ status <= 299)
      ELSE status >= 400

\* SvgApi._handle_response and client.AsyncSvgApi._handle_response.
HttpxHandleResponse(status, body) ==
    LET data == ParseJson(body)
    IN  IF HttpxRaisesForStatus(status)
          THEN RaiseRaiseForStatus(status, data)
          ELSE Return(data)

\* _make_request of the httpx executors: client.request raises the
\* transport's own exception, outside of _handle_response.
MakeRequest(o) ==
    CASE o.kind = "connect_error" -> Raise("httpx.ConnectError", NoStatus)
      [] o.kind = "timeout" -> Raise("httpx.TimeoutException", NoStatus)
      [] o.kind = "response" -> HttpxHandleResponse(o.status, o.body)

\* retryable_errors of retry_with_backoff / async_retry_with_backoff.
retryable_errors == {"NetworkError", "TimeoutError"}

\* AioHandleResponse calling raise_for_status without the leading `raise`:
\* when the classifier returns None the data is returned.
AioHandleResponse_NoRaise(status, body) ==
    LET data == ParseJson(body)
        r == raise_for_status(status, data)
    IN  IF status >= 400 /\ r.kind = "raise" THEN r ELSE Return(data)

\* async_client.AsyncSvgApi._handle_response.
AioHandleResponse(status, body) ==
    LET data == ParseJson(body)
    IN  IF status >= 400
          THEN RaiseRaiseForStatus(status, data)
          ELSE Return(data)

\* The body of `async with session.request(...)` in AsyncSvgApi._request.
AioSend(o) ==
    CASE o.kind = "connect_error" -> Raise("aiohttp.ClientConnectorError", NoStatus)
      [] o.kind = "timeout" -> Raise("asyncio.TimeoutError", NoStatus)
      [] o.kind = "response" -> AioHandleResponse(o.status, o.body)

NoError == Raise("none", NoStatus)

\* Largest `attempt` calculate_retry_delay is applied to.
MaxAttempt == 9

\* time.time() % 1 is one of the fractions j / JitterSteps, j < JitterSteps.
JitterSteps == 10

\* Delays are counted in ticks of 1 / TicksPerMs milliseconds, so that the
\* jitter delay * 0.1 * (j / JitterSteps) is a whole number of ticks.
TicksPerMs == 10 * JitterSteps

\* retry_delay values the model configures (ms): the default and a large one.
RetryDelays == {500, 20000}

\* The defaults of calculate_retry_delay (ms).
DefaultBaseDelay == 500
DefaultMaxDelay == 30000
ExponentialBase == 2

NoDelay == 0 - 1

RECURSIVE Pow(_, _)
Pow(b, n) == IF n = 0 THEN 1 ELSE b * Pow(b, n - 1)

Min(a, b) == IF a <= b THEN a ELSE b

\* calculate_retry_delay without the min(..., max_delay) cap.
calculate_retry_delay_NoCap(attempt_, base_delay, max_delay, j) ==
    LET d == base_delay * Pow(ExponentialBase, attempt_)
        jitter == d * j
    IN  d * TicksPerMs + jitter

\* utils.calculate_retry_delay, in ticks, with time.time() % 1 = j / JitterSteps:
\* delay = min(base_delay * exponential_base**attempt, max_delay) ms is
\* delay * TicksPerMs ticks, and jitter = delay * 0.1 * j / JitterSteps ms is
\* delay * j ticks.
calculate_retry_delay(attempt_, base_delay, max_delay, j) ==
    LET d == Min(base_delay * Pow(ExponentialBase, attempt_), max_delay)
        jitter == d * j
    IN  d * TicksPerMs + jitter

\* delay = retry_delay * (2 ** attempt) of async_client.AsyncSvgApi._request,
\* in ticks.
AioDelay(attempt_) == retry_delay * Pow(2, attempt_) * TicksPerMs

NoCalc == [attempt |-> 0, base_delay |-> DefaultBaseDelay, j |-> 0,
           applied |-> FALSE, out |-> NoDelay]

\* The resource of a client after construction.  SvgApi and the httpx
\* AsyncSvgApi create their httpx client in __init__ (session: the httpx
\* client, which has no connector of its own here); the aiohttp AsyncSvgApi
\* sets _session = None and _connector = None.  created counts the
\* sessions/clients constructed so far; the current one is number `created`.
NewClient(e) ==
    IF e = "AsyncSvgApi"
      THEN [session |-> "none", connector |-> "none", created |-> 0]
      ELSE [session |-> "open", connector |-> "none", created |-> 1]

\* AsyncSvgApi._get_session that builds a connector and a session on every call.
AioGetSession_AlwaysNew(c) ==
    [session |-> "open", connector |-> "open", created |-> c.created + 1]

\* AsyncSvgApi._get_session: the client record after the call (the session
\* returned is the current one).  The coroutine contains no await.
AioGetSession(c) ==
    IF c.session = "none" \/ c.session = "closed"
      THEN [session |-> "open", connector |-> "open", created |-> c.created + 1]
      ELSE c

\* The client of an executor whose _request is running for the first time.
InFlightClient(e) ==
    IF e = "AsyncSvgApi" THEN AioGetSession(NewClient(e)) ELSE NewClient(e)

\* SvgApi.close / client.AsyncSvgApi.close: httpx' close()/aclose() moves any
\* client to the closed state and does nothing on a closed one.
HttpxClose(c) ==
    [client |-> [c EXCEPT !.session = "closed"], exc |-> "none"]

\* AsyncSvgApi.close without the `self._session and` / `if self._connector` guards.
AioClose_NoGuard(c) ==
    IF c.session = "none"
      THEN [client |-> c, exc |-> "AttributeError"]
      ELSE [client |-> [c EXCEPT !.session = "closed", !.connector = "closed"],
            exc |-> "none"]

\* async_client.AsyncSvgApi.close: closes an open session (which closes the
\* connector it owns), then closes the connector if there is one; closing a
\* closed connector does nothing.
AioClose(c) ==
    [client |-> [c EXCEPT !.session = IF @ = "open" THEN "closed" ELSE @,
                          !.connector = IF @ = "none" THEN "none" ELSE "closed"],
     exc |-> "none"]

\* close() of the client of executor e.
CloseClient(e, c) == IF e = "AsyncSvgApi" THEN AioClose(c) ELSE HttpxClose(c)

\* __exit__ / __aexit__ that close only when the body ended normally.
ScopeExit_SkipOnError(e, c, raising) ==
    [client |-> IF raising THEN c ELSE CloseClient(e, c).client, suppress |-> FALSE]

\* SvgApi.__exit__ / AsyncSvgApi.__aexit__: call close() and return None, so
\* that an exception of the body is not suppressed.
ScopeExit(e, c, raising) ==
    [client |-> CloseClient(e, c).client, suppress |-> FALSE]

\* An argument left out (None).
NoArg == 0 - 1
NoColor == <<"None">>

\* A batch response as the server sent it: the number of keys of data and
\* of errors, and the counts of meta.
NoPayload == [n_data |-> 0, n_errors |-> 0, requested |-> 0, successful |-> 0, failed |-> 0]

\* No endpoint method has been called.
NoCall ==
    [op |-> "none", stage |-> "none", size |-> NoArg, stroke |-> NoArg, color |-> NoColor,
     n |-> 0, bad |-> "none", defaults |-> "None", response |-> NoPayload]

\* _request called directly.
RawCall == [NoCall EXCEPT !.op = "_request", !.stage = "request"]

\* The life of a client after construction.
NewLife ==
    [scope |-> "out", body_raised |-> FALSE, propagated |-> FALSE,
     closes |-> 0, close_exc |-> "none", used |-> FALSE, ever_closed |-> FALSE,
     after_close |-> FALSE, calls |-> 0, local |-> 0, peer |-> 0]

\* The life of a client whose first _request is running.
InFlightLife == [NewLife EXCEPT !.used = TRUE, !.calls = 1, !.local = 1]

\* No concurrent call, no close(), no helper run, no classifier call and no
\* get_batch_optimized call is being followed.
NoAio == [max_connections |-> 0, session |-> 0, connector |-> 0, created |-> 0, closed |-> {}]
NoTasks == <<>>
NoCloser == [pc |-> "off"]
NoHelper == [pc |-> "off"]
NoCls == [pc |-> "off"]
NoOpt == [pc |-> "off"]

AuxInit ==
    /\ aio = NoAio
    /\ tasks = NoTasks
    /\ closer = NoCloser
    /\ helper = NoHelper
    /\ cls = NoCls
    /\ opt = NoOpt

Init ==
    /\ AuxInit
    /\ max_retries \in 0..MaxRetries
    /\ retry_delay \in RetryDelays
    /\ delay = [e \in Executors |-> NoDelay]
    /\ calc = NoCalc
    /\ client = [e \in Executors |-> InFlightClient(e)]
    /\ life = [e \in Executors |-> InFlightLife]
    /\ call = [e \in Executors |-> RawCall]
    /\ script = <<>>
    /\ pc = [e \in Executors |-> "call"]
    /\ attempt = [e \in Executors |-> 0]
    /\ sends = [e \in Executors |-> 0]
    /\ sleeps = [e \in Executors |-> 0]
    /\ last_error = [e \in Executors |-> NoError]
    /\ result = [e \in Executors |-> Pending]
    /\ classified = [called |-> FALSE, status |-> NoStatus, data |-> "none", out |-> Pending]
    /\ httpx_non2xx \in BOOLEAN

\* The transport answers send number k with outcome o.
Answer(k, o) ==
    IF k <= Len(script)
      THEN o = script[k] /\ script' = script
      ELSE o \in Outcomes /\ script' = Append(script, o)


\* Record of a call of raise_for_status made while handling outcome o,
\* given whether the executor's _handle_response reaches the classifier.
Classify(o, reached) ==
    IF o.kind = "response" /\ reached
      THEN [called |-> TRUE, status |-> o.status, data |-> ParseJson(o.body),
            out |-> raise_for_status(o.status, ParseJson(o.body))]
      ELSE classified

\* max_attempts as _request of the httpx executors passes it.
HttpxMaxAttempts == max_retries + 1

\* One iteration of the `for attempt in range(max_attempts)` loop of
\* retry_with_backoff / async_retry_with_backoff around _make_request, or the
\* plain _make_request() call when max_retries is 0.
RetryWithBackoffCall(e) ==
    /\ pc[e] = "call"
    /\ IF max_retries > 0 /\ attempt[e] >= HttpxMaxAttempts
         THEN \* loop exhausted without a return or a raise
              /\ result' = [result EXCEPT ![e] =
                    IF last_error[e] # NoError THEN last_error[e]
                    ELSE Raise("RuntimeError", NoStatus)]
              /\ pc' = [pc EXCEPT ![e] = "done"]
              /\ UNCHANGED <<script, attempt, sends, sleeps, last_error, classified, delay>>
         ELSE IF client[e].session = "closed"
         THEN \* httpx refuses to send on a closed client: RuntimeError, which
              \* no retry helper catches
              /\ result' = [result EXCEPT ![e] = Raise("RuntimeError", NoStatus)]
              /\ pc' = [pc EXCEPT ![e] = "done"]
              /\ UNCHANGED <<script, attempt, sends, sleeps, last_error, classified, delay>>
         ELSE \E o \in Outcomes :
              /\ Answer(sends[e] + 1, o)
              /\ sends' = [sends EXCEPT ![e] = @ + 1]
              /\ classified' = Classify(o, HttpxRaisesForStatus(o.status))
              /\ LET r == MakeRequest(o)
                 IN  IF max_retries > 0 /\ r.kind = "raise" /\ r.exc \in retryable_errors
                       THEN /\ last_error' = [last_error EXCEPT ![e] = r]
                            /\ IF attempt[e] = HttpxMaxAttempts - 1
                                 THEN /\ result' = [result EXCEPT ![e] = r]
                                      /\ pc' = [pc EXCEPT ![e] = "done"]
                                      /\ UNCHANGED <<sleeps, delay>>
                                 ELSE \* time.sleep(calculate_retry_delay(...))
                                      /\ pc' = [pc EXCEPT ![e] = "sleep"]
                                      /\ sleeps' = [sleeps EXCEPT ![e] = @ + 1]
                                      /\ \E j \in 0..(JitterSteps - 1) :
                                            delay' = [delay EXCEPT ![e] =
                                                calculate_retry_delay(attempt[e], retry_delay,
                                                                      DefaultMaxDelay, j)]
                                      /\ UNCHANGED result
                       ELSE /\ result' = [result EXCEPT ![e] = r]
                            /\ pc' = [pc EXCEPT ![e] = "done"]
                            /\ UNCHANGED <<sleeps, last_error, delay>>
              /\ UNCHANGED attempt
    /\ UNCHANGED <<max_retries, httpx_non2xx, retry_delay, restVars>>

\* SvgApi._request (blocking).
SvgApi_request == RetryWithBackoffCall("SvgApi")

\* client.AsyncSvgApi._request (httpx.AsyncClient).
HttpxAsyncSvgApi_request == RetryWithBackoffCall("HttpxAsyncSvgApi")

\* AioMaxAttempts with an off-by-one: range(max_retries).
AioMaxAttempts_OffByOne == max_retries

\* max_attempts of async_client.AsyncSvgApi._request.
AioMaxAttempts == max_retries + 1

\* The except clauses of async_client.AsyncSvgApi._request for exception r
\* raised in iteration att: whether the clause assigns last_error (and what),
\* and whether an exception leaves _request (and which) or the loop goes on
\* to the backoff.
AioExcept(r, att) ==
    CASE r.exc = "aiohttp.ClientResponseError" ->
           [sets_last |-> TRUE, last |-> r,
            raises |-> r.status_code < 500 \/ att = max_retries,
            err |-> RaiseRaiseForStatus(r.status_code, "map_empty")]
      [] r.exc = "aiohttp.ClientConnectorError" ->
           [sets_last |-> TRUE, last |-> Raise("NetworkError", NoStatus),
            raises |-> att = max_retries,
            err |-> Raise("NetworkError", NoStatus)]
      [] r.exc = "asyncio.TimeoutError" ->
           [sets_last |-> TRUE, last |-> Raise("TimeoutError", NoStatus),
            raises |-> att = max_retries,
            err |-> Raise("TimeoutError", NoStatus)]
      [] OTHER ->
           [sets_last |-> FALSE, last |-> r, raises |-> TRUE, err |-> r]

\* async_client.AsyncSvgApi._request: one iteration of its loop, or the
\* statement after the loop.
AsyncSvgApi_request ==
    LET e == "AsyncSvgApi" IN
    /\ pc[e] = "call"
    /\ IF attempt[e] >= AioMaxAttempts
         THEN \* raise last_error or ApiError("Request failed after retries")
              /\ result' = [result EXCEPT ![e] =
                    IF last_error[e] # NoError THEN last_error[e]
                    ELSE Raise("ApiError", NoStatus)]
              /\ pc' = [pc EXCEPT ![e] = "done"]
              /\ UNCHANGED <<script, attempt, sends, sleeps, last_error, classified, delay>>
         ELSE \E o \in Outcomes :
              /\ Answer(sends[e] + 1, o)
              /\ sends' = [sends EXCEPT ![e] = @ + 1]
              /\ classified' = Classify(o, o.status >= 400)
              /\ LET r == AioSend(o)
                     x == AioExcept(r, attempt[e])
                 IN  IF r.kind = "return"
                       THEN /\ result' = [result EXCEPT ![e] = r]
                            /\ pc' = [pc EXCEPT ![e] = "done"]
                            /\ UNCHANGED <<attempt, sleeps, last_error, delay>>
                       ELSE /\ last_error' = [last_error EXCEPT ![e] =
                                                IF x.sets_last THEN x.last ELSE @]
                            /\ IF x.raises
                                 THEN /\ result' = [result EXCEPT ![e] = x.err]
                                      /\ pc' = [pc EXCEPT ![e] = "done"]
                                      /\ UNCHANGED <<attempt, sleeps, delay>>
                               ELSE IF attempt[e] < max_retries
                                 THEN \* await asyncio.sleep(delay)
                                      /\ pc' = [pc EXCEPT ![e] = "sleep"]
                                      /\ sleeps' = [sleeps EXCEPT ![e] = @ + 1]
                                      /\ delay' = [delay EXCEPT ![e] = AioDelay(attempt[e])]
                                      /\ UNCHANGED <<attempt, result>>
                                 ELSE /\ attempt' = [attempt EXCEPT ![e] = @ + 1]
                                      /\ UNCHANGED <<pc, sleeps, result, delay>>
    /\ UNCHANGED <<max_retries, httpx_non2xx, retry_delay, restVars>>

\* A backoff that sleeps again whenever its sleep returns.
BackoffEnd_SleepsAgain(e) ==
    /\ pc[e] = "sleep"
    /\ UNCHANGED vars

\* time.sleep(delay) / asyncio.sleep(delay) returns: the loop goes on with
\* the next value of `attempt`.
BackoffEnd(e) ==
    /\ pc[e] = "sleep"
    /\ pc' = [pc EXCEPT ![e] = "call"]
    /\ attempt' = [attempt EXCEPT ![e] = @ + 1]
    /\ UNCHANGED <<max_retries, httpx_non2xx, retry_delay, script, sends, sleeps, last_error,
                   result, classified, delay, restVars>>

Next ==
    \/ SvgApi_request
    \/ HttpxAsyncSvgApi_request
    \/ AsyncSvgApi_request
    \/ \E e \in Executors : BackoffEnd(e)

Spec == Init /\ [][Next]_vars

\* The same invocations when every send ends and every backoff sleep ends:
\* a blocking call returns, and the event loop resumes a coroutine whose
\* awaited send or sleep has ended.
SpecFair ==
    /\ Spec
    /\ WF_vars(SvgApi_request)
    /\ WF_vars(HttpxAsyncSvgApi_request)
    /\ WF_vars(AsyncSvgApi_request)
    /\ \A e \in Executors : WF_vars(BackoffEnd(e))

----------------------------------------------------------------------------
\* The life of one client: construction, requests one after another, close(),
\* scoped use.

\* Most requests one client is asked for.
MaxCalls == 2

\* Most close() calls in a row.
MaxCloses == 2

\* The max_retries the clients of the life-cycle runs are configured with:
\* no retry, and one retry with its backoff sleep.
LifeRetries == {0, 1}

\* One client was constructed and nothing else has happened (the installed
\* httpx is a current release).
InitLife ==
    /\ AuxInit
    /\ max_retries \in LifeRetries
    /\ httpx_non2xx = TRUE
    /\ retry_delay = DefaultBaseDelay
    /\ script = <<>>
    /\ \E f \in Executors : pc = [e \in Executors |-> IF e = f THEN "idle" ELSE "off"]
    /\ attempt = [e \in Executors |-> 0]
    /\ sends = [e \in Executors |-> 0]
    /\ sleeps = [e \in Executors |-> 0]
    /\ last_error = [e \in Executors |-> NoError]
    /\ result = [e \in Executors |-> Pending]
    /\ classified = [called |-> FALSE, status |-> NoStatus, data |-> "none", out |-> Pending]
    /\ delay = [e \in Executors |-> NoDelay]
    /\ calc = NoCalc
    /\ client = [e \in Executors |-> NewClient(e)]
    /\ life = [e \in Executors |-> NewLife]
    /\ call = [e \in Executors |-> NoCall]

\* The client is between requests.
Idle(e) == pc[e] = "idle" \/ pc[e] = "done"

\* _request is called: the statements before the retry loop.  The aiohttp
\* client gets its session here (async_client.py:159); the httpx clients
\* only build the url and the headers.
RequestPrologue(e) ==
    /\ client' = [client EXCEPT ![e] = IF e = "AsyncSvgApi" THEN AioGetSession(@) ELSE @]
    /\ life' = [life EXCEPT ![e].used = TRUE,
                            ![e].closes = 0,
                            ![e].after_close = life[e].ever_closed,
                            ![e].calls = @ + 1,
                            ![e].local = client'[e].created]
    /\ pc' = [pc EXCEPT ![e] = "call"]
    /\ attempt' = [attempt EXCEPT ![e] = 0]
    /\ sends' = [sends EXCEPT ![e] = 0]
    /\ sleeps' = [sleeps EXCEPT ![e] = 0]
    /\ last_error' = [last_error EXCEPT ![e] = NoError]
    /\ result' = [result EXCEPT ![e] = Pending]
    /\ delay' = [delay EXCEPT ![e] = NoDelay]
    /\ UNCHANGED <<auxVars, max_retries, httpx_non2xx, retry_delay, script, classified, calc>>

\* _request is called directly, on a client with no request in flight.
Begin(e) ==
    /\ Idle(e)
    /\ life[e].scope # "raising"
    /\ life[e].calls < MaxCalls
    /\ RequestPrologue(e)
    /\ UNCHANGED call

\* A second coroutine starts a request on the aiohttp client while one is in
\* flight: its _get_session call.
PeerGetSession ==
    LET e == "AsyncSvgApi" IN
    /\ pc[e] = "call" \/ pc[e] = "sleep"
    /\ life[e].peer = 0
    /\ client' = [client EXCEPT ![e] = AioGetSession(@)]
    /\ life' = [life EXCEPT ![e].peer = client'[e].created]
    /\ UNCHANGED <<auxVars, max_retries, httpx_non2xx, retry_delay, script, pc, attempt, sends,
                   sleeps, last_error, result, classified, delay, calc, call>>

\* close() is called on a client that has no request in flight.
Close(e) ==
    /\ Idle(e)
    /\ life[e].scope # "raising"
    /\ life[e].closes < MaxCloses
    /\ LET r == CloseClient(e, client[e])
       IN  /\ client' = [client EXCEPT ![e] = r.client]
           /\ life' = [life EXCEPT ![e].closes = @ + 1,
                                   ![e].close_exc = r.exc,
                                   ![e].ever_closed = TRUE]
    /\ UNCHANGED <<auxVars, max_retries, httpx_non2xx, retry_delay, script, pc, attempt, sends,
                   sleeps, last_error, result, classified, delay, calc, call>>

\* `with client:` / `async with client:` is entered: __enter__ returns self,
\* __aenter__ of the aiohttp client gets the session first.
Enter(e) ==
    /\ Idle(e)
    /\ life[e].scope = "out"
    /\ client' = [client EXCEPT ![e] = IF e = "AsyncSvgApi" THEN AioGetSession(@) ELSE @]
    /\ life' = [life EXCEPT ![e].scope = "in", ![e].used = TRUE, ![e].closes = 0]
    /\ UNCHANGED <<auxVars, max_retries, httpx_non2xx, retry_delay, script, pc, attempt, sends,
                   sleeps, last_error, result, classified, delay, calc, call>>

\* The body of the scope raises (an error of a request it does not catch, or
\* any other exception).
BodyRaise(e) ==
    /\ Idle(e)
    /\ life[e].scope = "in"
    /\ life' = [life EXCEPT ![e].scope = "raising", ![e].body_raised = TRUE]
    /\ UNCHANGED <<auxVars, max_retries, httpx_non2xx, retry_delay, script, pc, attempt, sends,
                   sleeps, last_error, result, classified, delay, calc, client, call>>

\* The scope is left, normally or by the body's exception: __exit__ /
\* __aexit__ runs.
Exit(e) ==
    /\ Idle(e)
    /\ life[e].scope = "in" \/ life[e].scope = "raising"
    /\ LET r == ScopeExit(e, client[e], life[e].scope = "raising")
       IN  /\ client' = [client EXCEPT ![e] = r.client]
           /\ life' = [life EXCEPT ![e].scope = "exited",
                                   ![e].propagated = life[e].body_raised /\ ~r.suppress,
                                   ![e].closes = @ + 1,
                                   ![e].ever_closed = TRUE]
    /\ UNCHANGED <<auxVars, max_retries, httpx_non2xx, retry_delay, script, pc, attempt, sends,
                   sleeps, last_error, result, classified, delay, calc, call>>

NextLife ==
    \/ Next
    \/ \E e \in Executors : Begin(e)
    \/ PeerGetSession
    \/ \E e \in Executors : Close(e)
    \/ \E e \in Executors : Enter(e)
    \/ \E e \in Executors : BodyRaise(e)
    \/ \E e \in Executors : Exit(e)

SpecLife == InitLife /\ [][NextLife]_vars

----------------------------------------------------------------------------
\* The endpoint methods get_icon and get_batch, the same in the three clients.

Digits == {"0", "1", "2", "3", "4", "5", "6", "7", "8", "9"}
LowerHex == {"a", "b", "c", "d", "e", "f"}
UpperHex == {"A", "B", "C", "D", "E", "F"}
LowerLetters ==
    LowerHex \cup {"g", "h", "i", "j", "k", "l", "m", "n", "o", "p", "q", "r", "s", "t",
                   "u", "v", "w", "x", "y", "z"}

\* The length of the part of string c that a pattern ending in `$` must
\* consume: re's `$` matches at the end of the string and also just before
\* a newline that ends it.
DollarEnd(c) == IF Len(c) >= 1 /\ c[Len(c)] = "\n" THEN {Len(c), Len(c) - 1} ELSE {Len(c)}

\* re.match(r"^#[0-9a-fA-F]{6}$", color)
MatchHexColor(c) ==
    /\ 7 \in DollarEnd(c)
    /\ c[1] = "#"
    /\ \A i \in 2..7 : c[i] \in Digits \cup LowerHex \cup UpperHex

\* re.match(r"^[a-z]+$", color)
MatchNamedColor(c) ==
    \E n \in DollarEnd(c) : n >= 1 /\ \A i \in 1..n : c[i] \in LowerLetters

\* utils.validate_color
validate_color(color) == MatchHexColor(color) \/ MatchNamedColor(color)

\* utils.validate_size
validate_size(size) == 8 <= size /\ size <= 512

\* utils.validate_stroke, the stroke in tenths: 0.5 <= stroke <= 3.0
validate_stroke(stroke) == 5 <= stroke /\ stroke <= 30

\* The argument values get_icon is called with.
Sizes == {NoArg, 7, 8, 512, 513}
Strokes == {NoArg, 4, 5, 30, 31}
Colors ==
    { NoColor,
      <<"#", "f", "F", "0", "9", "a", "A">>,
      <<"r", "e", "d">>,
      <<"r", "e", "d", "\n">>,
      <<"#", "0", "0", "0", "0", "0", "0", "\n">>,
      <<"R", "e", "d">>,
      <<"#", "f", "f", "f">>,
      <<"#", "g", "g", "0", "0", "0", "0">>,
      <<"r", "e", "d", "\n", "\n">>,
      <<>> }

\* The parameter checks at the head of get_icon: the exception raised, or
\* Return("params") when the request goes ahead.
GetIconValidate(size, stroke, color) ==
    IF size # NoArg /\ ~validate_size(size)
      THEN Raise("InvalidRequestError", NoStatus)
    ELSE IF stroke # NoArg /\ ~validate_stroke(stroke)
      THEN Raise("InvalidRequestError", NoStatus)
    ELSE IF color # NoColor /\ ~validate_color(color)
      THEN Raise("InvalidRequestError", NoStatus)
    ELSE Return("params")

\* get_icon(name, source, size, stroke, color) is called on a client just
\* constructed: the parameter checks, then _request up to its loop.
GetIcon(e) ==
    /\ pc[e] = "idle"
    /\ call[e].op = "none"
    /\ \E size \in Sizes, stroke \in Strokes, color \in Colors :
         LET v == GetIconValidate(size, stroke, color)
             c == [call[e] EXCEPT !.op = "get_icon", !.size = size,
                                  !.stroke = stroke, !.color = color]
         IN  IF v.kind = "raise"
               THEN /\ call' = [call EXCEPT ![e] = [c EXCEPT !.stage = "rejected"]]
                    /\ result' = [result EXCEPT ![e] = v]
                    /\ pc' = [pc EXCEPT ![e] = "done"]
                    /\ UNCHANGED <<auxVars, max_retries, httpx_non2xx, retry_delay, script, attempt,
                                   sends, sleeps, last_error, classified, delay, calc,
                                   client, life>>
               ELSE /\ call' = [call EXCEPT ![e] = [c EXCEPT !.stage = "request"]]
                    /\ RequestPrologue(e)

\* Items one batch may hold (max_length of BatchRequestOptions.icons).
MaxBatch == 50

\* The batches get_batch is called with: n items, of which some may lack
\* the key "name" or have the name "", and the defaults argument.
BatchSizes == {0, 1, 2, MaxBatch, MaxBatch + 1}
BatchFlaws == {"none", "missing_name", "empty_name"}
BatchDefaultArgs == {"None", "{}", "{size}", "{name,size}"}

\* BatchIconRequest(**d): "name" is a required field.
BatchIconRequest_init(has_name) ==
    IF has_name THEN Return("BatchIconRequest") ELSE Raise("ValidationError", NoStatus)

\* BatchRequestOptions built with model_construct, which validates nothing.
BatchRequestOptions_construct(n, bad, defaults_type) ==
    Return("BatchRequestOptions")

\* BatchRequestOptions(icons=..., defaults=...): icons holds 1 to 50 items,
\* validate_icons wants every name non-empty, and the field defaults of type
\* BatchDefaults takes a BatchDefaults instance or a dict (the models do not
\* set from_attributes).
BatchRequestOptions_init(n, bad, defaults_type) ==
    IF /\ 1 <= n /\ n <= MaxBatch
       /\ bad # "empty_name"
       /\ defaults_type \in {"BatchDefaults", "dict"}
      THEN Return("BatchRequestOptions")
      ELSE Raise("ValidationError", NoStatus)

\* The statements of get_batch before its request: the exception raised, or
\* the BatchRequestOptions built.
GetBatchBuild(n, bad, defaults) ==
    LET \* [BatchIconRequest(**icon) for icon in icons]
        icon_requests == BatchIconRequest_init(~(n >= 1 /\ bad = "missing_name"))
        \* BatchIconRequest(**defaults) if defaults else BatchIconRequest(name="")
        defaults_obj == IF defaults \in {"None", "{}"}
                          THEN BatchIconRequest_init(TRUE)
                          ELSE BatchIconRequest_init(defaults = "{name,size}")
    IN  IF icon_requests.kind = "raise" THEN icon_requests
        ELSE IF defaults_obj.kind = "raise" THEN defaults_obj
        ELSE \* defaults=BatchIconRequest(name="", size=..., stroke=...)
             BatchRequestOptions_init(n, bad, "BatchIconRequest")

\* get_batch(icons, defaults) is called on a client just constructed.
GetBatch(e) ==
    /\ pc[e] = "idle"
    /\ call[e].op = "none"
    /\ \E n \in BatchSizes, bad \in BatchFlaws, defaults \in BatchDefaultArgs :
         /\ n = 0 => bad = "none"
         /\ LET v == GetBatchBuild(n, bad, defaults)
                c == [call[e] EXCEPT !.op = "get_batch", !.n = n, !.bad = bad,
                                     !.defaults = defaults]
            IN  IF v.kind = "raise"
                  THEN /\ call' = [call EXCEPT ![e] = [c EXCEPT !.stage = "rejected"]]
                       /\ result' = [result EXCEPT ![e] = v]
                       /\ pc' = [pc EXCEPT ![e] = "done"]
                       /\ UNCHANGED <<auxVars, max_retries, httpx_non2xx, retry_delay, script, attempt,
                                      sends, sleeps, last_error, classified, delay, calc,
                                      client, life>>
                  ELSE /\ call' = [call EXCEPT ![e] = [c EXCEPT !.stage = "request"]]
                       /\ RequestPrologue(e)

\* What a 2xx batch response may carry.
BatchPayloads ==
    [n_data : 0..2, n_errors : 0..1, requested : 1..2, successful : 0..2, failed : 0..1]

\* IconResponse(**data).data: data must be a mapping whose "data" is an icon.
IconResponse_init(data, wellformed) ==
    CASE data = "list" -> Raise("TypeError", NoStatus)
      [] data = "map_payload" /\ wellformed -> Return("Icon")
      [] OTHER -> Raise("ValidationError", NoStatus)

\* BatchResponse(**data): data must be a mapping with a "meta" that has the
\* three counts; no validator relates the counts or the keys to each other
\* or to the request.
BatchResponse_init(data, wellformed) ==
    CASE data = "list" -> Raise("TypeError", NoStatus)
      [] data = "map_payload" /\ wellformed -> Return("BatchResponse")
      [] OTHER -> Raise("ValidationError", NoStatus)

\* _request has returned to get_icon / get_batch: the response model is built
\* from the payload.
MapResponse(e) ==
    /\ pc[e] = "done"
    /\ call[e].op \in {"get_icon", "get_batch"}
    /\ call[e].stage = "request"
    /\ result[e].kind = "return"
    /\ \E wellformed \in BOOLEAN :
         LET r == IF call[e].op = "get_icon"
                    THEN IconResponse_init(result[e].data, wellformed)
                    ELSE BatchResponse_init(result[e].data, wellformed)
         IN  /\ result' = [result EXCEPT ![e] = r]
             /\ \E p \in (IF r = Return("BatchResponse") THEN BatchPayloads ELSE {NoPayload}) :
                   call' = [call EXCEPT ![e].stage = "mapped", ![e].response = p]
    /\ UNCHANGED <<auxVars, max_retries, httpx_non2xx, retry_delay, script, pc, attempt, sends,
                   sleeps, last_error, classified, delay, calc, client, life>>

\* One client was constructed; no method has been called.
InitApi ==
    /\ AuxInit
    /\ max_retries \in 0..MaxRetries
    /\ httpx_non2xx \in BOOLEAN
    /\ retry_delay = DefaultBaseDelay
    /\ script = <<>>
    /\ \E f \in Executors : pc = [e \in Executors |-> IF e = f THEN "idle" ELSE "off"]
    /\ attempt = [e \in Executors |-> 0]
    /\ sends = [e \in Executors |-> 0]
    /\ sleeps = [e \in Executors |-> 0]
    /\ last_error = [e \in Executors |-> NoError]
    /\ result = [e \in Executors |-> Pending]
    /\ classified = [called |-> FALSE, status |-> NoStatus, data |-> "none", out |-> Pending]
    /\ delay = [e \in Executors |-> NoDelay]
    /\ calc = NoCalc
    /\ client = [e \in Executors |-> NewClient(e)]
    /\ life = [e \in Executors |-> NewLife]
    /\ call = [e \in Executors |-> NoCall]

NextApi ==
    \/ Next
    \/ \E e \in Executors : GetIcon(e)
    \/ \E e \in Executors : GetBatch(e)
    \/ \E e \in Executors : MapResponse(e)

SpecApi == InitApi /\ [][NextApi]_vars

----------------------------------------------------------------------------
\* calculate_retry_delay as a function of its arguments and of the clock.

\* No client has a request, a close() or an endpoint call under way.
CoreOff ==
    /\ httpx_non2xx = TRUE
    /\ retry_delay = DefaultBaseDelay
    /\ script = <<>>
    /\ pc = [e \in Executors |-> "off"]
    /\ attempt = [e \in Executors |-> 0]
    /\ sends = [e \in Executors |-> 0]
    /\ sleeps = [e \in Executors |-> 0]
    /\ last_error = [e \in Executors |-> NoError]
    /\ result = [e \in Executors |-> Pending]
    /\ classified = [called |-> FALSE, status |-> NoStatus, data |-> "none", out |-> Pending]
    /\ delay = [e \in Executors |-> NoDelay]
    /\ client = [e \in Executors |-> NewClient(e)]
    /\ life = [e \in Executors |-> NewLife]
    /\ call = [e \in Executors |-> NoCall]

\* No client exists: nothing of the request executors can run.
NoClients ==
    /\ AuxInit
    /\ max_retries = 0
    /\ CoreOff

InitDelay ==
    /\ NoClients
    /\ calc \in [attempt : 0..MaxAttempt, base_delay : RetryDelays,
                  j : 0..(JitterSteps - 1), applied : {FALSE}, out : {NoDelay}]

\* calculate_retry_delay(attempt, base_delay) is called.
CalculateRetryDelay ==
    /\ ~calc.applied
    /\ calc' = [calc EXCEPT !.applied = TRUE,
                            !.out = calculate_retry_delay(calc.attempt, calc.base_delay,
                                                          DefaultMaxDelay, calc.j)]
    /\ UNCHANGED <<auxVars, max_retries, script, pc, attempt, sends, sleeps, last_error, result,
                   classified, httpx_non2xx, retry_delay, delay, client, life, call>>

NextDelay == CalculateRetryDelay

SpecDelay == InitDelay /\ [][NextDelay]_vars

----------------------------------------------------------------------------
\* Concurrent calls of _request on one aiohttp AsyncSvgApi, their
\* cancellation (SpecConc) and close() running among them (SpecClose),
\* interleaved at the suspension points of the code.

\* Number of concurrent calls on the client.
NumTasks == 2

Tasks == 1..NumTasks

\* limit_per_host of the TCPConnector that _get_session creates.
LimitPerHost == 10

\* The max_connections the client is configured with.
ConcMaxConnections == {0, 1, 2}

\* The max_retries the client is configured with.
ConcRetries == {0, 1}

\* What a send of a concurrent call can end in: a success, a classified
\* error response, a connection failure or a timeout.
ConcOutcomes ==
    {[kind |-> "response", status |-> 200, body |-> "{data,meta}"],
     [kind |-> "response", status |-> 404, body |-> "{error:{message,code,details}}"],
     [kind |-> "connect_error", status |-> NoStatus, body |-> "not_json"],
     [kind |-> "timeout", status |-> NoStatus, body |-> "not_json"]}

NoOutcome == [kind |-> "none", status |-> NoStatus, body |-> "not_json"]

\* The exchange of a call whose connection was closed under it.
Aborted == [kind |-> "aborted", status |-> NoStatus, body |-> "not_json"]

\* A call of _request that has not started.
NewTask ==
    [pc |-> "idle", attempt |-> 0, session |-> 0, holds |-> 0, exchange |-> NoOutcome,
     response |-> NoOutcome, last_error |-> NoError, result |-> Pending,
     on_closed |-> FALSE, aborted |-> FALSE, cancelled_at |-> "none"]

\* A TCPConnector that counts only the connections per host.
ConnectorLimit_PerHostOnly(limit) == LimitPerHost

\* Number of connections TCPConnector(limit=limit, limit_per_host=10) lets
\* be checked out to the one host of base_url at a time; limit=0 switches
\* the total limit off.
ConnectorLimit(limit) ==
    IF limit = 0 THEN LimitPerHost ELSE Min(limit, LimitPerHost)

\* Number of connections checked out of the client's connectors.
CheckedOut == Cardinality({t \in DOMAIN tasks : tasks[t].holds # 0})

\* Leaving `async with session.request(...)` without releasing.
AsyncWithExit_Leak(tk) == tk

\* `async with session.request(...)` is left, by return, by an exception or
\* by cancellation: the connection of the attempt is released.
AsyncWithExit(tk) == [tk EXCEPT !.holds = 0]

\* AsyncSvgApi._get_session on the shared client: the session it returns and
\* the client after it.
ConcGetSession(a) ==
    IF a.session = 0 \/ a.session \in a.closed
      THEN [a EXCEPT !.created = @ + 1, !.session = a.created + 1,
                     !.connector = a.created + 1]
      ELSE a

\* Connectors cs are closed: the connections checked out of them are closed
\* with them.
DropConnections(ts, cs) ==
    [t \in DOMAIN ts |->
        IF ts[t].holds \in cs
          THEN [ts[t] EXCEPT !.holds = 0, !.aborted = TRUE]
          ELSE ts[t]]

\* Call tk is at the top of the loop of _request, the sessions `closed` being
\* closed: the loop is exhausted, or `session.request(...)` is called with the
\* session the call got before the loop, and a closed session refuses with
\* RuntimeError.  Nothing suspends the call between _get_session, or the end
\* of a backoff sleep, and this point.
LoopTop(tk, closed) ==
    IF tk.attempt >= AioMaxAttempts
      THEN [tk EXCEPT !.pc = "done",
                      !.result = IF tk.last_error # NoError THEN tk.last_error
                                 ELSE Raise("ApiError", NoStatus)]
    ELSE IF tk.session \in closed
      THEN [tk EXCEPT !.pc = "done", !.on_closed = TRUE,
                      !.result = Raise("RuntimeError", NoStatus)]
      ELSE [tk EXCEPT !.pc = "acquire"]

\* An attempt of call tk ended in exception r: the except clauses and the
\* backoff of _request.
TaskExcept(tk, r, closed) ==
    LET x == AioExcept(r, tk.attempt)
        tl == [tk EXCEPT !.last_error = IF x.sets_last THEN x.last ELSE @]
    IN  IF x.raises
          THEN [tl EXCEPT !.result = x.err, !.pc = "done"]
        ELSE IF tk.attempt < max_retries
          THEN [tl EXCEPT !.pc = "sleep"]
          ELSE LoopTop([tl EXCEPT !.attempt = @ + 1], closed)

concFrame == <<coreVars, helper, cls, opt>>

InitConc ==
    /\ max_retries \in ConcRetries
    /\ CoreOff
    /\ calc = NoCalc
    /\ helper = NoHelper
    /\ cls = NoCls
    /\ opt = NoOpt
    /\ aio \in [max_connections : ConcMaxConnections, session : {0}, connector : {0},
                created : {0}, closed : {{}}]
    /\ tasks = [t \in Tasks |-> NewTask]
    /\ closer = [pc |-> "idle", began_with |-> 0, closed_later |-> FALSE]

\* A coroutine calls _request: `session = await self._get_session()` and the
\* first pass through the top of the loop.
TaskBegin(t) ==
    /\ tasks[t].pc = "idle"
    /\ aio' = ConcGetSession(aio)
    /\ tasks' = [tasks EXCEPT ![t] = LoopTop([@ EXCEPT !.session = aio'.session], aio'.closed)]
    /\ UNCHANGED <<closer, concFrame>>

\* The connector hands the request a connection when fewer than its limit
\* are checked out; a connector closed meanwhile refuses.
TaskAcquire(t) ==
    /\ tasks[t].pc = "acquire"
    /\ IF tasks[t].session \in aio.closed
         THEN tasks' = [tasks EXCEPT ![t] =
                  [@ EXCEPT !.pc = "done", !.exchange = Aborted,
                            !.result = Raise("aiohttp.ClientConnectionError", NoStatus)]]
         ELSE /\ CheckedOut < ConnectorLimit(aio.max_connections)
              /\ tasks' = [tasks EXCEPT ![t].pc = "inflight", ![t].holds = tasks[t].session]
    /\ UNCHANGED <<aio, closer, concFrame>>

\* The send of call t ends: the response is bound by `async with ... as
\* response`, or the transport's exception is raised and handled.  The
\* total timeout also covers the wait for a connection.
TaskReceive(t) ==
    /\ tasks[t].pc = "inflight" \/ tasks[t].pc = "acquire"
    /\ IF tasks[t].aborted
         THEN tasks' = [tasks EXCEPT ![t] =
                  [@ EXCEPT !.pc = "done", !.exchange = Aborted,
                            !.result = Raise("aiohttp.ClientConnectionError", NoStatus)]]
         ELSE \E o \in ConcOutcomes :
              /\ tasks[t].pc = "acquire" => o.kind = "timeout"
              /\ tasks' = [tasks EXCEPT ![t] =
                    IF o.kind = "response"
                      THEN [@ EXCEPT !.pc = "handle", !.exchange = o, !.response = o]
                      ELSE TaskExcept(AsyncWithExit([@ EXCEPT !.exchange = o]), AioSend(o), aio.closed)]
    /\ UNCHANGED <<aio, closer, concFrame>>

\* `return await self._handle_response(response)` ends and the `async with`
\* block is left; a body cut off by a closed connection does not parse.
TaskHandle(t) ==
    /\ tasks[t].pc = "handle"
    /\ LET tk == tasks[t]
           o == IF tk.aborted THEN [tk.response EXCEPT !.body = "not_json"] ELSE tk.response
           r == AioSend(o)
           tr == AsyncWithExit([tk EXCEPT !.exchange = o])
       IN  tasks' = [tasks EXCEPT ![t] =
              IF r.kind = "return"
                THEN [tr EXCEPT !.pc = "done", !.result = r]
                ELSE TaskExcept(tr, r, aio.closed)]
    /\ UNCHANGED <<aio, closer, concFrame>>

\* asyncio.sleep(delay) of call t returns: the next pass through the loop.
TaskBackoffEnd(t) ==
    /\ tasks[t].pc = "sleep"
    /\ tasks' = [tasks EXCEPT ![t] = LoopTop([@ EXCEPT !.attempt = @ + 1], aio.closed)]
    /\ UNCHANGED <<aio, closer, concFrame>>

\* The task running call t is cancelled at a suspension point: CancelledError
\* is raised there, no except clause of _request catches it, and the `async
\* with` block, if the call is inside it, is left.
TaskCancel(t) ==
    /\ tasks[t].pc \in {"acquire", "inflight", "handle", "sleep"}
    /\ tasks' = [tasks EXCEPT ![t] =
          [AsyncWithExit(@) EXCEPT !.pc = "done", !.cancelled_at = tasks[t].pc,
                                   !.result = Raise("asyncio.CancelledError", NoStatus)]]
    /\ UNCHANGED <<aio, closer, concFrame>>

\* close() is called: the session is closed when there is an open one; then
\* either `await self._session.close()` suspends, or close() goes on at once
\* to close self._connector.
CloseCall(suspends) ==
    /\ closer.pc = "idle"
    /\ LET first == aio.session # 0 /\ aio.session \notin aio.closed
           closed1 == IF first THEN aio.closed \cup {aio.session} ELSE aio.closed
           closed2 == IF aio.connector # 0 THEN closed1 \cup {aio.connector} ELSE closed1
       IN  IF first /\ suspends
             THEN /\ aio' = [aio EXCEPT !.closed = closed1]
                  /\ tasks' = DropConnections(tasks, closed1)
                  /\ closer' = [closer EXCEPT !.pc = "suspended",
                                              !.began_with = aio.connector]
             ELSE /\ aio' = [aio EXCEPT !.closed = closed2]
                  /\ tasks' = DropConnections(tasks, closed2)
                  /\ closer' = [closer EXCEPT !.began_with = aio.connector]
    /\ UNCHANGED concFrame

\* close() resumes after `await self._session.close()`:
\* `if self._connector: await self._connector.close()`.
CloseResume ==
    /\ closer.pc = "suspended"
    /\ aio' = [aio EXCEPT !.closed = @ \cup {aio.connector}]
    /\ tasks' = DropConnections(tasks, aio'.closed)
    /\ closer' = [closer EXCEPT !.pc = "idle",
                                !.closed_later = @ \/ aio.connector # closer.began_with]
    /\ UNCHANGED concFrame

NextConc ==
    \/ \E t \in Tasks : TaskBegin(t)
    \/ \E t \in Tasks : TaskAcquire(t)
    \/ \E t \in Tasks : TaskReceive(t)
    \/ \E t \in Tasks : TaskHandle(t)
    \/ \E t \in Tasks : TaskBackoffEnd(t)
    \/ \E t \in Tasks : TaskCancel(t)

SpecConc == InitConc /\ [][NextConc]_vars

\* The same calls with close() running among them.
NextClose ==
    \/ NextConc
    \/ \E suspends \in BOOLEAN : CloseCall(suspends)
    \/ CloseResume

SpecClose == InitConc /\ [][NextClose]_vars

----------------------------------------------------------------------------
\* The retry loops on their own: retry_with_backoff and
\* async_retry_with_backoff around a callable that raises the errors of the
\* taxonomy, next to the inline loop of the aiohttp _request, all three
\* against the same transport.

Helpers == {"retry_with_backoff", "async_retry_with_backoff"}

\* Readings of time.time() % 1 in the helper runs: the smallest and the
\* largest jitter step.
HelperJitters == {0, JitterSteps - 1}

\* A callable as the helpers expect it, on its k-th call: the payload of a
\* response below 400, NetworkError or TimeoutError for a transport failure
\* (retryable), the classified error of a response from 400 on (not
\* retryable); an error carries the number of the call that raised it.
GenericCall(o, k) ==
    CASE o.kind = "connect_error" -> [Raise("NetworkError", NoStatus) EXCEPT !.data = k]
      [] o.kind = "timeout" -> [Raise("TimeoutError", NoStatus) EXCEPT !.data = k]
      [] o.kind = "response" /\ o.status < 400 -> Return(ParseJson(o.body))
      [] OTHER -> [Raise("SvgApiError", o.status) EXCEPT !.data = k]

\* A helper that keeps the first exception it caught.
SetLastException_KeepFirst(prev, e) == IF prev = NoError THEN e ELSE prev

\* `last_exception = e` in the except clause of the helpers.
SetLastException(prev, e) == e

\* A helper that never breaks out of its loop.
IsFinalAttempt_Never(attempt_, max_attempts) == FALSE

\* `if attempt == max_attempts - 1: break` of the helpers.
IsFinalAttempt(attempt_, max_attempts) == attempt_ = max_attempts - 1

\* The statements after the loop of the helpers.
RaiseLastException(last_exception) ==
    IF last_exception # NoError THEN last_exception ELSE Raise("RuntimeError", NoStatus)

\* A helper has been called: its locals before the first iteration.
NewHelper ==
    [pc |-> "call", attempt |-> 0, calls |-> 0, sleeps |-> 0, delay_attempt |-> NoArg,
     delay |-> NoDelay, last_exception |-> NoError, result |-> Pending]

retryFrame ==
    <<max_retries, pc, attempt, sends, sleeps, last_error, result, classified, httpx_non2xx,
      retry_delay, delay, calc, client, life, call, aio, tasks, closer, cls, opt>>

\* One _request is running on the aiohttp client and each helper has been
\* called with max_attempts = max_retries + 1 and base_delay = retry_delay.
InitRetry ==
    /\ max_retries \in 0..MaxRetries
    /\ retry_delay \in RetryDelays
    /\ httpx_non2xx = TRUE
    /\ script = <<>>
    /\ pc = [e \in Executors |-> IF e = "AsyncSvgApi" THEN "call" ELSE "off"]
    /\ attempt = [e \in Executors |-> 0]
    /\ sends = [e \in Executors |-> 0]
    /\ sleeps = [e \in Executors |-> 0]
    /\ last_error = [e \in Executors |-> NoError]
    /\ result = [e \in Executors |-> Pending]
    /\ classified = [called |-> FALSE, status |-> NoStatus, data |-> "none", out |-> Pending]
    /\ delay = [e \in Executors |-> NoDelay]
    /\ calc = NoCalc
    /\ client = [e \in Executors |-> IF e = "AsyncSvgApi" THEN InFlightClient(e) ELSE NewClient(e)]
    /\ life = [e \in Executors |-> IF e = "AsyncSvgApi" THEN InFlightLife ELSE NewLife]
    /\ call = [e \in Executors |-> IF e = "AsyncSvgApi" THEN RawCall ELSE NoCall]
    /\ aio = NoAio
    /\ tasks = NoTasks
    /\ closer = NoCloser
    /\ cls = NoCls
    /\ opt = NoOpt
    /\ helper = [h \in Helpers |-> NewHelper]

\* One iteration of `for attempt in range(max_attempts)` of helper h, or the
\* statements after the loop.
HelperCall(h) ==
    /\ helper[h].pc = "call"
    /\ LET hr == helper[h]
           max_attempts == max_retries + 1
       IN  IF hr.attempt >= max_attempts
             THEN /\ helper' = [helper EXCEPT ![h].pc = "done",
                                              ![h].result = RaiseLastException(hr.last_exception)]
                  /\ UNCHANGED script
             ELSE \E o \in Outcomes :
                  /\ Answer(hr.calls + 1, o)
                  /\ LET r == GenericCall(o, hr.calls + 1)
                         called == [hr EXCEPT !.calls = @ + 1]
                         caught == [called EXCEPT !.last_exception = SetLastException(@, r)]
                     IN  IF r.kind = "raise" /\ r.exc \in retryable_errors
                           THEN IF IsFinalAttempt(hr.attempt, max_attempts)
                                  THEN helper' = [helper EXCEPT ![h] =
                                          [caught EXCEPT !.pc = "done",
                                              !.result = RaiseLastException(caught.last_exception)]]
                                  ELSE \E j \in HelperJitters :
                                       helper' = [helper EXCEPT ![h] =
                                          [caught EXCEPT !.pc = "sleep", !.sleeps = @ + 1,
                                              !.delay_attempt = hr.attempt,
                                              !.delay = calculate_retry_delay(hr.attempt,
                                                          retry_delay, DefaultMaxDelay, j)]]
                           ELSE helper' = [helper EXCEPT ![h] =
                                              [called EXCEPT !.pc = "done", !.result = r]]
    /\ UNCHANGED retryFrame

\* time.sleep(delay) / asyncio.sleep(delay) of helper h returns.
HelperBackoffEnd(h) ==
    /\ helper[h].pc = "sleep"
    /\ helper' = [helper EXCEPT ![h].pc = "call", ![h].attempt = @ + 1]
    /\ UNCHANGED <<script, retryFrame>>

NextRetry ==
    \/ AsyncSvgApi_request
    \/ BackoffEnd("AsyncSvgApi")
    \/ \E h \in Helpers : HelperCall(h)
    \/ \E h \in Helpers : HelperBackoffEnd(h)

SpecRetry == InitRetry /\ [][NextRetry]_vars

----------------------------------------------------------------------------
\* errors.raise_for_status as a function of the status, of the error
\* envelope of the parsed body and of the request id.

\* What the error envelope has under "message", "code" and "details", and
\* the X-Request-Id header: "None" when absent.
EnvelopeMessages == {"None", "body.error.message"}
EnvelopeCodes == {"None", "body.error.code"}
EnvelopeDetails == {"None", "{}", "{retry_after}", "{other}"}
RequestIds == {"None", "X-Request-Id"}

\* No error object: the classifier raised something else or returned.
NoFields(r) ==
    [kind |-> r.kind, exc |-> r.exc, status_code |-> r.status_code, message |-> "None",
     code |-> "None", details |-> "None", retry_after |-> "None", request_id |-> "None"]

\* SvgApiError.__init__, inherited by every class but RateLimitError and
\* TimeoutError: `self.details = details or {}`.
SvgApiError_init(class, message, code, status_code, details, request_id) ==
    [kind |-> "raise", exc |-> class, status_code |-> status_code, message |-> message,
     code |-> code, details |-> IF details = "None" THEN "{}" ELSE details,
     retry_after |-> "None", request_id |-> request_id]

\* RateLimitError(message=..., retry_after=..., **kwargs): __init__ passes
\* code="RATE_LIMITED" and status_code=429 itself and forwards kwargs.
RateLimitError_new(message, retry_after, kwargs) ==
    IF RateLimitError_init(DOMAIN kwargs \cup {"retry_after"}).exc = "TypeError"
      THEN NoFields(Raise("TypeError", NoStatus))
      ELSE [SvgApiError_init("RateLimitError", message, "RATE_LIMITED", 429,
                             kwargs.details, kwargs.request_id)
               EXCEPT !.retry_after = retry_after]

\* errors.raise_for_status on a body whose "error" is a mapping with the
\* given message, code and details (or without them).
RaiseForStatusFields(status_code, body_message, body_code, body_details, request_id) ==
    LET message == IF body_message = "None" THEN "Unknown error" ELSE body_message
        code == body_code
        details == body_details
    IN  IF status_code = 400
          THEN SvgApiError_init("InvalidRequestError", message, code, status_code,
                                details, request_id)
        ELSE IF status_code = 401
          THEN SvgApiError_init("AuthenticationError", message, code, status_code,
                                details, request_id)
        ELSE IF status_code = 404
          THEN SvgApiError_init("NotFoundError", message, code, status_code,
                                details, request_id)
        ELSE IF status_code = 429
          THEN RateLimitError_new(message,
                   IF details = "{retry_after}" THEN "body.error.details.retry_after"
                   ELSE "None",
                   [status_code |-> status_code, details |-> details,
                    request_id |-> request_id])
        ELSE IF status_code >= 500
          THEN IF status_code = 503
                 THEN SvgApiError_init("ServiceUnavailableError", message, code, status_code,
                                       details, request_id)
                 ELSE SvgApiError_init("ApiError", message, code, status_code,
                                       details, request_id)
        ELSE NoFields(Return("None"))

\* raise_for_status is about to be called on one response.
InitClassify ==
    /\ max_retries = 0
    /\ CoreOff
    /\ calc = NoCalc
    /\ aio = NoAio
    /\ tasks = NoTasks
    /\ closer = NoCloser
    /\ helper = NoHelper
    /\ opt = NoOpt
    /\ cls \in [pc : {"call"}, status : Statuses, message : EnvelopeMessages,
                code : EnvelopeCodes, details : EnvelopeDetails, request_id : RequestIds,
                out : {NoFields(Pending)}]

\* raise_for_status(status_code, data, request_id) is called.
RaiseForStatusCall ==
    /\ cls.pc = "call"
    /\ cls' = [cls EXCEPT !.pc = "done",
                          !.out = RaiseForStatusFields(cls.status, cls.message, cls.code,
                                                       cls.details, cls.request_id)]
    /\ UNCHANGED <<coreVars, aio, tasks, closer, helper, opt>>

NextClassify == RaiseForStatusCall

SpecClassify == InitClassify /\ [][NextClassify]_vars

----------------------------------------------------------------------------
\* AsyncSvgApi.get_batch_optimized: the chunks, their concurrent get_batch
\* calls and the merge of the results.

\* Most icons one call is given.
MaxIcons == 4

\* chunk_size arguments: one and two icons per chunk, and the default.
ChunkSizes == {1, 2, MaxBatch}

\* icons[i:i + chunk_size] for i in range(0, len(icons), chunk_size): the
\* lengths of the chunks, and for each whether it holds the icon without
\* "name" (icon number flaw, 0 for none).
SplitChunks(n, chunk_size, flaw) ==
    [k \in 1..((n + chunk_size - 1) \div chunk_size) |->
        [len |-> Min(chunk_size, n - (k - 1) * chunk_size),
         bad |-> IF (k - 1) * chunk_size < flaw /\ flaw <= k * chunk_size
                   THEN "missing_name" ELSE "none",
         state |-> "pending", result |-> Pending, items |-> 0]]

\* gather without return_exceptions: it ends with the first chunk that raises.
GatherDone_FirstException(chunks) ==
    \/ \A k \in DOMAIN chunks : chunks[k].state = "done"
    \/ \E k \in DOMAIN chunks : chunks[k].state = "done" /\ chunks[k].result.kind = "raise"

\* asyncio.gather(*..., return_exceptions=True) ends when every chunk's
\* get_batch has returned or raised.
GatherDone(chunks) ==
    \A k \in DOMAIN chunks : chunks[k].state = "done"

\* `for item in result.data: if hasattr(item, 'svg')`: iterating the dict
\* gives its keys, strings, and no string has an attribute svg; the number of
\* icons appended for a response with `items` entries.
AppendedIcons(items) == 0

RECURSIVE SumAppended(_, _)
SumAppended(chunks, k) ==
    IF k = 0 THEN 0 ELSE SumAppended(chunks, k - 1) + AppendedIcons(chunks[k].items)

\* The loop over the results of gather: the first exception in chunk order
\* is raised, otherwise the icons appended are returned.
MergeResults(chunks) ==
    LET failing == {k \in DOMAIN chunks : chunks[k].result.kind = "raise"}
    IN  IF failing # {}
          THEN [kind |-> "raise", exc |-> chunks[CHOOSE k \in failing :
                                                   \A m \in failing : k <= m].result.exc,
                chunk |-> CHOOSE k \in failing : \A m \in failing : k <= m, count |-> 0]
          ELSE [kind |-> "return", exc |-> "none", chunk |-> 0,
                count |-> SumAppended(chunks, Len(chunks))]

optFrame == <<coreVars, aio, tasks, closer, helper, cls>>

\* get_batch_optimized(icons, chunk_size) is about to be called on an aiohttp
\* client.
InitOpt ==
    /\ max_retries = 0
    /\ CoreOff
    /\ calc = NoCalc
    /\ aio = NoAio
    /\ tasks = NoTasks
    /\ closer = NoCloser
    /\ helper = NoHelper
    /\ cls = NoCls
    /\ \E n \in 0..MaxIcons, chunk_size \in ChunkSizes, flaw \in 0..MaxIcons :
          /\ flaw <= n
          /\ opt = [pc |-> "call", n |-> n, chunk_size |-> chunk_size, flaw |-> flaw,
                    chunks |-> <<>>,
                    result |-> [kind |-> "pending", exc |-> "none", chunk |-> 0, count |-> 0]]

\* get_batch_optimized up to `await asyncio.gather(...)`.
OptCall ==
    /\ opt.pc = "call"
    /\ opt' = IF opt.n = 0
                THEN [opt EXCEPT !.pc = "done",
                                 !.result = [kind |-> "return", exc |-> "none", chunk |-> 0,
                                             count |-> 0]]
                ELSE [opt EXCEPT !.pc = "gather",
                                 !.chunks = SplitChunks(opt.n, opt.chunk_size, opt.flaw)]
    /\ UNCHANGED optFrame

\* self.get_batch(chunk) of chunk k runs: it raises while building its
\* request, or sends it and returns the response.
ChunkRun(k) ==
    /\ opt.pc = "gather"
    /\ k \in DOMAIN opt.chunks
    /\ opt.chunks[k].state = "pending"
    /\ LET v == GetBatchBuild(opt.chunks[k].len, opt.chunks[k].bad, "None")
       IN  IF v.kind = "raise"
             THEN opt' = [opt EXCEPT !.chunks[k].state = "done", !.chunks[k].result = v]
             ELSE \E items \in 0..opt.chunks[k].len :
                     opt' = [opt EXCEPT !.chunks[k].state = "done",
                                        !.chunks[k].result = Return("BatchResponse"),
                                        !.chunks[k].items = items]
    /\ UNCHANGED optFrame

\* gather has ended: the loop over its results.
OptCollect ==
    /\ opt.pc = "gather"
    /\ GatherDone(opt.chunks)
    /\ opt' = [opt EXCEPT !.pc = "done", !.result = MergeResults(opt.chunks)]
    /\ UNCHANGED optFrame

NextOpt ==
    \/ OptCall
    \/ \E k \in 1..MaxIcons : ChunkRun(k)
    \/ OptCollect

SpecOpt == InitOpt /\ [][NextOpt]_vars

TypeOK ==
    /\ max_retries \in 0..MaxRetries
    /\ pc \in [Executors -> {"off", "idle", "call", "sleep", "done"}]
    /\ \A e \in Executors : sends[e] \in Nat /\ sleeps[e] \in Nat /\ attempt[e] \in Nat

----------------------------------------------------------------------------
\* Vocabulary of the properties.

Done(e) == pc[e] = "done"

\* The outcome of the last send of executor e (sends[e] >= 1).
LastOutcome(e) == script[sends[e]]

\* A response whose body is no JSON or a JSON object with a well-formed
\* error envelope (or none): data is a mapping as raise_for_status declares.
EnvelopeBody(body) == ParseJson(body) \in {"map_empty", "map_error_map"}

\* The error class the specification's classifier rules give a status.
ExpectedClass(status) ==
    CASE status = 400 -> "InvalidRequestError"
      [] status = 401 -> "AuthenticationError"
      [] status = 404 -> "NotFoundError"
      [] status = 429 -> "RateLimitError"
      [] status = 503 -> "ServiceUnavailableError"
      [] status >= 500 /\ status # 503 -> "ApiError"
      [] OTHER -> "SvgApiError"

\* The ErrorKind of the taxonomy an exception class stands for.
ErrorKind(exc) ==
    CASE exc = "InvalidRequestError" -> "InvalidRequest"
      [] exc = "AuthenticationError" -> "Authentication"
      [] exc = "NotFoundError" -> "NotFound"
      [] exc = "RateLimitError" -> "RateLimit"
      [] exc = "ServiceUnavailableError" -> "ServiceUnavailable"
      [] exc = "ApiError" -> "Server"
      [] exc = "NetworkError" -> "Network"
      [] exc = "TimeoutError" -> "Timeout"
      [] exc = "SvgApiError" -> "Unknown"
      [] OTHER -> "not in the taxonomy"

\* The Outcome kind of a finished invocation.
OutcomeKind(r) == IF r.kind = "return" THEN "Success" ELSE ErrorKind(r.exc)

----------------------------------------------------------------------------
\* C1: with max_retries = N >= 1, an executor whose every send is answered
\* 503 (body: an error envelope or no JSON) performs exactly N+1 sends and
\* then raises ServiceUnavailableError.
C1_Retries503 ==
    \A e \in Executors :
        ( /\ max_retries >= 1
          /\ Done(e)
          /\ \A k \in 1..sends[e] :
                /\ script[k].kind = "response"
                /\ script[k].status = 503
                /\ EnvelopeBody(script[k].body) )
        => /\ sends[e] = max_retries + 1
           /\ result[e].exc = "ServiceUnavailableError"

\* C2: a response with status 400, 401, 404 or 429 (body: an error envelope
\* or no JSON) ends the invocation at once, with no further send and no
\* backoff sleep, in the error of that status.
C2_ClientErrorTerminal ==
    \A e \in Executors : \A k \in 1..sends[e] :
        ( /\ script[k].kind = "response"
          /\ script[k].status \in {400, 401, 404, 429}
          /\ EnvelopeBody(script[k].body) )
        => /\ Done(e)
           /\ sends[e] = k
           /\ result[e].kind = "raise"
           /\ result[e].exc = ExpectedClass(script[k].status)

\* C3: an invocation that ended after a send that failed at transport level
\* has used all max_retries + 1 sends and raised NetworkError (connection
\* failure) or TimeoutError (deadline overrun).
C3_TransportFailureClassified ==
    \A e \in Executors :
        ( /\ Done(e)
          /\ sends[e] >= 1
          /\ LastOutcome(e).kind \in {"connect_error", "timeout"} )
        => /\ sends[e] = max_retries + 1
           /\ result[e].exc =
                 IF LastOutcome(e).kind = "connect_error"
                   THEN "NetworkError" ELSE "TimeoutError"

\* C4: an invocation never performs more than max_retries + 1 sends, and a
\* finished invocation has performed at least one.
C4_SendBound ==
    \A e \in Executors :
        /\ sends[e] <= max_retries + 1
        /\ Done(e) => sends[e] >= 1

\* C4 witness: an invocation has ended having used all of max_retries + 1 >= 2 sends.
C4_Witness ==
    \E e \in Executors : Done(e) /\ max_retries >= 1 /\ sends[e] = max_retries + 1

\* C5: on the same sequence of transport outcomes the blocking executor and
\* the cooperative executor perform the same number of sends and end in the
\* same Outcome kind (stated for the httpx whose raise_for_status raises
\* exactly for status >= 400, the statuses the cooperative executor
\* classifies, so that no difference comes from the library release).
C5_SameSemantics ==
    (~httpx_non2xx /\ Done("SvgApi") /\ Done("AsyncSvgApi"))
        => /\ sends["SvgApi"] = sends["AsyncSvgApi"]
           /\ OutcomeKind(result["SvgApi"]) = OutcomeKind(result["AsyncSvgApi"])

\* C6: a finished invocation has returned a payload or raised a subclass of
\* SvgApiError.
C6_TaxonomyOnly ==
    \A e \in Executors :
        Done(e) => \/ result[e].kind = "return"
                   \/ result[e].kind = "raise" /\ result[e].exc \in SvgApiErrors

\* C7: called with a mapping and status 400, 401, 404, 429, 503 or another
\* status >= 500, raise_for_status raises the class of that status, carrying
\* the status as status_code.
C7_ClassifierRules ==
    ( /\ classified.called
      /\ classified.data \in {"map_empty", "map_error_map"}
      /\ classified.status \in {400, 401, 404, 429} \/ classified.status >= 500 )
    => classified.out = Raise(ExpectedClass(classified.status), classified.status)

\* C8: a response with a 4xx status other than 400, 401, 404, 429 (body: an
\* error envelope or no JSON) is surfaced as a taxonomy error of kind Unknown.
C8_UnknownKind ==
    \A e \in Executors :
        ( /\ Done(e)
          /\ sends[e] >= 1
          /\ LastOutcome(e).kind = "response"
          /\ LastOutcome(e).status \in (400..499) \ {400, 401, 404, 429}
          /\ EnvelopeBody(LastOutcome(e).body) )
        => /\ result[e].kind = "raise"
           /\ result[e].exc \in SvgApiErrors
           /\ ErrorKind(result[e].exc) = "Unknown"

\* C9: a response with status < 400 ends the invocation at once with the
\* parsed body returned (the empty mapping when the body is no JSON).
C9_SuccessBelow400 ==
    \A e \in Executors : \A k \in 1..sends[e] :
        (script[k].kind = "response" /\ script[k].status < 400)
        => /\ Done(e)
           /\ sends[e] = k
           /\ result[e] = Return(ParseJson(script[k].body))

\* C10: an invocation returns a payload only if its last send received a
\* response with status < 400, and an invocation that ended after a failed
\* exchange has raised.
C10_NoSwallowedFailure ==
    \A e \in Executors :
        /\ result[e].kind = "return"
             => /\ sends[e] >= 1
                /\ LastOutcome(e).kind = "response"
                /\ LastOutcome(e).status < 400
        /\ ( /\ Done(e)
             /\ sends[e] >= 1
             /\ LastOutcome(e).kind # "response" \/ LastOutcome(e).status >= 400 )
             => result[e].kind = "raise"

\* C10 witness: an invocation returned a payload on a retry, after a failed send.
C10_Witness ==
    \E e \in Executors :
        /\ result[e].kind = "return"
        /\ sends[e] >= 2
        /\ script[1].kind # "response"

----------------------------------------------------------------------------
\* The delay d ms, and d * 1.1 ms, in ticks (the latter times 10).
Ticks(d) == d * TicksPerMs

\* C11 (as claimed): for attempt in 0..9 and the defaults base_delay 0.5 s
\* and max_delay 30 s, calculate_retry_delay returns a value in
\* [base_delay * 2^attempt, base_delay * 2^attempt * 1.1] that does not
\* exceed max_delay * 1.1.
C11_DelayRange ==
    (calc.applied /\ calc.base_delay = DefaultBaseDelay)
    => LET b == Ticks(calc.base_delay * Pow(2, calc.attempt))
       IN  /\ b <= calc.out
           /\ calc.out * 10 <= b * 11
           /\ calc.out * 10 <= Ticks(DefaultMaxDelay) * 11

\* C11 (amended): calculate_retry_delay returns a value in [d, d * 1.1] for
\* d = min(base_delay * 2^attempt, max_delay), so it never exceeds
\* max_delay * 1.1; once base_delay * 2^attempt exceeds max_delay the value
\* lies below base_delay * 2^attempt.
C11_DelayRangeCapped ==
    calc.applied
    => LET d == Ticks(Min(calc.base_delay * Pow(2, calc.attempt), DefaultMaxDelay))
       IN  /\ d <= calc.out
           /\ calc.out * 10 <= d * 11
           /\ calc.out * 10 <= Ticks(DefaultMaxDelay) * 11

\* C11 witness: a delay was computed with jitter for an attempt whose
\* exponential term exceeds max_delay.
C11_Witness ==
    /\ calc.applied
    /\ calc.base_delay = DefaultBaseDelay
    /\ calc.base_delay * Pow(2, calc.attempt) > DefaultMaxDelay
    /\ calc.j > 0

\* C12: the delay of every backoff sleep before retry i + 1 lies in the
\* range of calculate_retry_delay(i, retry_delay), [d, d * 1.1] for
\* d = min(retry_delay * 2^i, 30 s), and so never exceeds 33 s.
C12_BackoffInCalculatorRange ==
    \A e \in Executors :
        pc[e] = "sleep"
        => LET d == Ticks(Min(retry_delay * Pow(2, attempt[e]), DefaultMaxDelay))
           IN  /\ d <= delay[e]
               /\ delay[e] * 10 <= d * 11
               /\ delay[e] * 10 <= Ticks(DefaultMaxDelay) * 11

\* The connection resource of a client is released.
Released(c) == c.session = "closed" /\ c.connector # "open"

\* C13: a close() that directly follows a close() raises nothing and leaves
\* the client's resource as the first one left it; no close() raises, also
\* on a client never used.
C13_CloseIdempotent ==
    [][\A e \in Executors :
          /\ life'[e].close_exc = "none"
          /\ (life'[e].closes >= 2 /\ life'[e].closes = life[e].closes + 1)
                => client'[e] = client[e]]_vars

\* C13 witness: close() was called twice in a row on a client never used.
C13_Witness ==
    \E e \in Executors : life[e].closes >= 2 /\ ~life[e].used

\* C14: a request begun after close() never fails because the resource is
\* closed: it reaches the transport, and returns when the transport answers
\* with a 2xx response.
C14_ReopensAfterClose ==
    \A e \in Executors :
        (Done(e) /\ life[e].after_close)
        => /\ sends[e] >= 1
           /\ ( LastOutcome(e).kind = "response"
                /\ LastOutcome(e).status \in 200..299 )
                => result[e].kind = "return"

\* C15: leaving a scope, normally or by an exception of the body, releases
\* the client's resource, and an exception of the body is propagated.
C15_ScopeReleases ==
    [][\A e \in Executors :
          (life'[e].scope = "exited" /\ life[e].scope # "exited")
          => /\ Released(client'[e])
             /\ life[e].scope = "raising" => life'[e].propagated]_vars

\* C15 witness: a scope whose body raised has been left.
C15_Witness ==
    \E e \in Executors :
        /\ life[e].scope = "exited"
        /\ life[e].body_raised
        /\ life[e].propagated
        /\ Released(client[e])

\* C16: the aiohttp client has no session until its first request or scope
\* entry; a session is created only when there is none or the current one is
\* closed; and on a client never closed every request, one after another or
\* concurrent, holds the one session created.
C16_OneLazySession ==
    /\ [](~life["AsyncSvgApi"].used
            => /\ client["AsyncSvgApi"].session = "none"
               /\ client["AsyncSvgApi"].created = 0)
    /\ [](~life["AsyncSvgApi"].ever_closed
            => /\ client["AsyncSvgApi"].created <= 1
               /\ life["AsyncSvgApi"].local # 0 => life["AsyncSvgApi"].local = 1
               /\ life["AsyncSvgApi"].peer # 0
                    => life["AsyncSvgApi"].peer = life["AsyncSvgApi"].local)
    /\ [][client'["AsyncSvgApi"].created > client["AsyncSvgApi"].created
            => client["AsyncSvgApi"].session \in {"none", "closed"}]_vars

\* C16 witness: a second request and a concurrent one have run on an aiohttp
\* client never closed.
C16_Witness ==
    LET e == "AsyncSvgApi" IN
    /\ ~life[e].ever_closed
    /\ life[e].calls = 2
    /\ life[e].peer # 0
    /\ client[e].session = "open"

----------------------------------------------------------------------------
\* The endpoint method called on client e has ended: it raised, or built
\* its response model.
Finished(e) ==
    /\ call[e].op \in {"get_icon", "get_batch"}
    /\ Done(e)
    /\ result[e].kind = "raise" \/ call[e].stage = "mapped"

\* '#' followed by six hexadecimal digits.
IsHexColor(c) ==
    Len(c) = 7 /\ c[1] = "#" /\ \A i \in 2..7 : c[i] \in Digits \cup LowerHex \cup UpperHex

\* A non-empty token of lowercase letters.
IsNameToken(c) == Len(c) >= 1 /\ \A i \in 1..Len(c) : c[i] \in LowerLetters

\* Arguments of get_icon outside the validation bounds.
BadIconArgs(c) ==
    \/ c.size # NoArg /\ (c.size < 8 \/ c.size > 512)
    \/ c.stroke # NoArg /\ (c.stroke < 5 \/ c.stroke > 30)
    \/ c.color # NoColor /\ ~IsHexColor(c.color) /\ ~IsNameToken(c.color)

\* C17: get_icon called with a size outside [8, 512], a stroke outside
\* [0.5, 3.0] or a color that is neither '#' plus six hex digits nor a
\* lowercase alphabetic token raises InvalidRequestError before any I/O: no
\* send, and the client's resource as construction left it.
C17_IconValidatedFirst ==
    \A e \in Executors :
        (call[e].op = "get_icon" /\ BadIconArgs(call[e]))
        => /\ Done(e)
           /\ result[e] = Raise("InvalidRequestError", NoStatus)
           /\ sends[e] = 0
           /\ client[e] = NewClient(e)

\* A batch that is empty, too long, or has an item without a name.
InvalidBatch(c) == c.n = 0 \/ c.n > MaxBatch \/ c.bad # "none"

\* C18: get_batch called with an empty batch, more than 50 items, or an item
\* whose name is missing or empty fails validation before any request: no
\* send, and the client's resource as construction left it.
C18_BatchValidatedFirst ==
    \A e \in Executors :
        (call[e].op = "get_batch" /\ InvalidBatch(call[e]))
        => /\ Done(e)
           /\ result[e] = Raise("ValidationError", NoStatus)
           /\ sends[e] = 0
           /\ client[e] = NewClient(e)

\* C18 witness: a batch of 51 named items has been rejected with no send.
C18_Witness ==
    \E e \in Executors :
        /\ Finished(e)
        /\ call[e].op = "get_batch"
        /\ call[e].n = MaxBatch + 1
        /\ call[e].bad = "none"
        /\ sends[e] = 0

\* C19: get_batch called with 1 to 50 named items, with or without
\* defaults, sends its request, and returns a BatchResponse when the
\* transport answers 2xx with a well-formed batch payload, also one with
\* entries both in data and in errors.
C19_ValidBatchSent ==
    \A e \in Executors :
        (call[e].op = "get_batch" /\ ~InvalidBatch(call[e]) /\ Finished(e))
        => /\ sends[e] >= 1
           /\ ( /\ LastOutcome(e).kind = "response"
                /\ LastOutcome(e).status \in 200..299
                /\ call[e].response # NoPayload )
                => result[e] = Return("BatchResponse")

----------------------------------------------------------------------------
\* Concurrent use of the aiohttp client.

\* Call t has ended by what its own exchange with the server came to.
ByExchange(t) ==
    /\ tasks[t].pc = "done"
    /\ tasks[t].cancelled_at = "none"
    /\ ~tasks[t].on_closed

\* What _request makes of the exchange call t had in its last attempt.
OwnResult(t) ==
    IF tasks[t].exchange.kind = "aborted"
      THEN Raise("aiohttp.ClientConnectionError", NoStatus)
      ELSE LET r == AioSend(tasks[t].exchange)
           IN  IF r.kind = "return" THEN r ELSE AioExcept(r, tasks[t].attempt).err

\* C21 as stated: concurrent calls through one aiohttp client each end in the
\* outcome of their own exchange, and the connections checked out at one
\* time never exceed the configured max_connections.
C21_OwnOutcomeWithinPool ==
    /\ \A t \in DOMAIN tasks :
          ByExchange(t) => tasks[t].exchange.kind # "none" /\ tasks[t].result = OwnResult(t)
    /\ CheckedOut <= aio.max_connections

\* C21 amended: the same, the bound on the checked-out connections for a
\* configured max_connections of at least 1 (0 switches the total limit of
\* the connector off).
C21_OwnOutcomeWithinPositivePool ==
    /\ \A t \in DOMAIN tasks :
          ByExchange(t) => tasks[t].exchange.kind # "none" /\ tasks[t].result = OwnResult(t)
    /\ aio.max_connections >= 1 => CheckedOut <= aio.max_connections

\* One call has returned its own payload while another, whose exchange was a
\* 404, still holds the only connection of the pool.
C21_Witness ==
    \E t, u \in DOMAIN tasks :
        /\ ByExchange(t) /\ tasks[t].exchange.status = 200 /\ tasks[t].result.kind = "return"
        /\ tasks[u].pc = "handle" /\ tasks[u].exchange.status = 404
        /\ CheckedOut = 1 /\ aio.max_connections = 1

\* C22: a call of the aiohttp _request holds no connection while it is in
\* backoff or once it has ended, whether it ended by itself or by being
\* cancelled during a send or during a backoff.
C22_CancelReleases ==
    \A t \in DOMAIN tasks :
        tasks[t].pc \in {"idle", "sleep", "done"} => tasks[t].holds = 0

\* One call was cancelled with its send in flight and another in backoff.
C22_Witness ==
    \E t, u \in DOMAIN tasks :
        /\ tasks[t].pc = "done" /\ tasks[t].cancelled_at = "inflight"
        /\ tasks[u].pc = "done" /\ tasks[u].cancelled_at = "sleep"

\* C30: every send of a call on the aiohttp client is made on a session that
\* is open at that moment, and close() closes no connector created after it
\* was called.
C30_CloseRequestInterleaving ==
    /\ \A t \in DOMAIN tasks : ~tasks[t].on_closed
    /\ ~closer.closed_later

\* C23: every invocation of the three executors terminates, by returning or
\* by raising, when every send and every backoff sleep ends.
C23_Terminates == <>(\A e \in Executors : pc[e] = "done")

\* The three invocations have ended with the largest max_retries, the aiohttp
\* one after having slept before every retry.
C23_Witness ==
    /\ \A e \in Executors : pc[e] = "done" /\ result[e].kind # "pending"
    /\ max_retries = MaxRetries
    /\ sleeps["AsyncSvgApi"] = MaxRetries

----------------------------------------------------------------------------
\* The retry loops.

\* The first k sends all ended in a transport failure.
AllTransportFailures(k) ==
    \A i \in 1..k : script[i].kind \in {"connect_error", "timeout"}

\* The error class of the taxonomy for a transport failure.
TransportErrorClass(o) ==
    IF o.kind = "connect_error" THEN "NetworkError" ELSE "TimeoutError"

\* C24: when every attempt of an invocation failed with a retryable failure,
\* all max_retries + 1 attempts were made and the error raised to the caller
\* is the one of the last attempt: its class, and for the helpers the very
\* exception the last call raised.
C24_LastErrorSurfaced ==
    /\ \A h \in DOMAIN helper :
          (helper[h].pc = "done" /\ helper[h].calls >= 1
                /\ AllTransportFailures(helper[h].calls))
            => /\ helper[h].calls = max_retries + 1
               /\ helper[h].result.kind = "raise"
               /\ helper[h].result.exc = TransportErrorClass(script[helper[h].calls])
               /\ helper[h].result.data = helper[h].calls
    /\ (pc["AsyncSvgApi"] = "done" /\ sends["AsyncSvgApi"] >= 1
          /\ AllTransportFailures(sends["AsyncSvgApi"]))
         => /\ sends["AsyncSvgApi"] = max_retries + 1
            /\ result["AsyncSvgApi"].kind = "raise"
            /\ result["AsyncSvgApi"].exc
                  = TransportErrorClass(script[sends["AsyncSvgApi"]])

\* With the largest max_retries every attempt failed, the first otherwise
\* than the last, and the three loops have raised.
C24_Witness ==
    /\ helper # NoHelper
    /\ max_retries = MaxRetries
    /\ Len(script) = MaxRetries + 1
    /\ AllTransportFailures(Len(script))
    /\ script[1].kind # script[Len(script)].kind
    /\ \A h \in DOMAIN helper : helper[h].pc = "done" /\ helper[h].calls = Len(script)
    /\ pc["AsyncSvgApi"] = "done" /\ sends["AsyncSvgApi"] = Len(script)

\* C29: in the helpers and in the loop of the aiohttp _request, calls and
\* backoff sleeps alternate strictly: no sleep before the first call, one
\* sleep after each failed call that is retried, computed from the
\* zero-indexed number of that call, and none after the call that ends the
\* invocation.
C29_SendsAndSleepsAlternate ==
    /\ \A h \in DOMAIN helper :
          /\ helper[h].pc = "call" => helper[h].sleeps = helper[h].calls
          /\ helper[h].pc = "sleep"
               => /\ helper[h].sleeps = helper[h].calls
                  /\ helper[h].delay_attempt = helper[h].calls - 1
                  /\ \E j \in HelperJitters :
                        helper[h].delay = calculate_retry_delay(helper[h].calls - 1,
                                              retry_delay, DefaultMaxDelay, j)
          /\ helper[h].pc = "done" => helper[h].sleeps = helper[h].calls - 1
    /\ helper # NoHelper =>
          /\ pc["AsyncSvgApi"] = "call" => sleeps["AsyncSvgApi"] = sends["AsyncSvgApi"]
          /\ pc["AsyncSvgApi"] = "sleep"
               => /\ sleeps["AsyncSvgApi"] = sends["AsyncSvgApi"]
                  /\ delay["AsyncSvgApi"]
                        = retry_delay * Pow(2, sends["AsyncSvgApi"] - 1) * TicksPerMs
          /\ pc["AsyncSvgApi"] = "done"
               => sleeps["AsyncSvgApi"] = sends["AsyncSvgApi"] - 1

\* A helper sleeps for the second time, after its second call, while the
\* other helper and the aiohttp loop have ended at their third call, each
\* after two sleeps.
C29_Witness ==
    /\ helper # NoHelper
    /\ helper["retry_with_backoff"].pc = "sleep"
    /\ helper["retry_with_backoff"].calls = 2
    /\ helper["retry_with_backoff"].sleeps = 2
    /\ helper["async_retry_with_backoff"].pc = "done"
    /\ helper["async_retry_with_backoff"].calls = 3
    /\ helper["async_retry_with_backoff"].sleeps = 2
    /\ pc["AsyncSvgApi"] = "done" /\ sends["AsyncSvgApi"] = 3 /\ sleeps["AsyncSvgApi"] = 2

----------------------------------------------------------------------------
\* The fields of the classified errors.

\* The statuses the classifier has a rule for, among those the model draws.
ClassifiedStatuses == {400, 401, 404, 429, 500, 503}

\* C25: for every classified status the error raised carries the message
\* (or "Unknown error"), the code and the details of the body's error
\* envelope, and for 429 the retry_after of its details when they have one.
C25_FieldsFromBody ==
    (cls.pc = "done" /\ cls.status \in ClassifiedStatuses)
      => /\ cls.out.kind = "raise"
         /\ cls.out.message
               = (IF cls.message = "None" THEN "Unknown error" ELSE cls.message)
         /\ cls.out.code = cls.code
         /\ cls.details # "None" => cls.out.details = cls.details
         /\ cls.status = 429
               => cls.out.retry_after
                     = (IF cls.details = "{retry_after}"
                          THEN "body.error.details.retry_after" ELSE "None")

----------------------------------------------------------------------------
\* get_batch_optimized.

\* C27: get_batch_optimized makes one get_batch call per chunk of chunk_size
\* icons, ends only after every chunk's call has ended, and when a chunk has
\* raised it raises the exception of the failing chunk of lowest index
\* instead of returning a list.
C27_AllOrNothing ==
    (opt.pc = "done" /\ opt.n >= 1)
      => /\ Len(opt.chunks) * opt.chunk_size >= opt.n
         /\ (Len(opt.chunks) - 1) * opt.chunk_size < opt.n
         /\ \A k \in DOMAIN opt.chunks : opt.chunks[k].state = "done"
         /\ \A k \in DOMAIN opt.chunks :
               (/\ opt.chunks[k].result.kind = "raise"
                /\ \A m \in 1..(k - 1) : opt.chunks[m].result.kind # "raise")
                 => /\ opt.result.kind = "raise"
                    /\ opt.result.chunk = k
                    /\ opt.result.exc = opt.chunks[k].result.exc
                    /\ opt.result.count = 0

\* A call with several chunks has ended after all of them raised, with the
\* exception of the first.
C27_Witness ==
    /\ opt.pc = "done"
    /\ Len(opt.chunks) >= 3
    /\ \A k \in DOMAIN opt.chunks : opt.chunks[k].result.kind = "raise"
    /\ opt.result.kind = "raise" /\ opt.result.chunk = 1

=============================================================================
